---- MODULE Spec2Model ----
(***************************************************************************)
(* Model of the directory-tree media pipeline of media_process.py with its *)
(* two converters, img2webp.py (process_image) and video_compress.py       *)
(* (process_video).                                                        *)
(*                                                                         *)
(* Names are sequences of tokens: "a.jpg" is <<"a", ".", "jpg">>, so that  *)
(* Path.stem, Path.suffix, str.startswith and str.endswith are computed on *)
(* the name the way pathlib and str compute them.                          *)
(*                                                                         *)
(* The output tree is a map from paths to files.  A file records what it   *)
(* holds (st), the input it was made from (src), how it was written (via)  *)
(* and the set w of tasks whose encoder or copy still has it open: POSIX   *)
(* rename moves an open file with its writers, unlink detaches it.         *)
(***************************************************************************)
EXTENDS Integers, Sequences, FiniteSets, TLC

\* ------------------------------------------------------------------ bounds
MaxWorkers == 2
MaxRuns == 2
MaxKills == 1

\* ------------------------------------------------------------ the input tree
Dirs == {"root", "sub", "git", "obj"}

Files == {"a_jpg", "a_png", "h_jpg", "e_heic", "a_mp4", "b_mp4",
          "c_jpg", "c_mp4", "d_jpg", "d_mp4"}

\* os listing of each directory (Path.iterdir), files and directories
Listing ==
  [root |-> <<"a_jpg", "a_png", "h_jpg", "e_heic", "a_mp4", "b_mp4", "git", "sub">>,
   sub  |-> <<"c_jpg", "c_mp4">>,
   git  |-> <<"d_jpg", "obj">>,
   obj  |-> <<"d_mp4">>]

\* the same tree with nothing left in it that a converter takes
BareListing ==
  [root |-> <<"h_jpg", "e_heic", "git">>,
   sub  |-> <<>>,
   git  |-> <<"d_jpg", "obj">>,
   obj  |-> <<"d_mp4">>]

\* the same tree with files for a converter in the subdirectory only
DeepListing ==
  [root |-> <<"h_jpg", "e_heic", "git", "sub">>,
   sub  |-> <<"c_jpg", "c_mp4">>,
   git  |-> <<"d_jpg", "obj">>,
   obj  |-> <<"d_mp4">>]

\* the input trees a run is given
Trees == [full |-> Listing, bare |-> BareListing, deep |-> DeepListing]

Name ==
  [root   |-> <<"in">>,
   sub    |-> <<"sub">>,
   git    |-> <<".", "git">>,
   obj    |-> <<"obj">>,
   a_jpg  |-> <<"a", ".", "jpg">>,
   a_png  |-> <<"a", ".", "png">>,
   h_jpg  |-> <<".", "h", ".", "jpg">>,
   e_heic |-> <<"e", ".", "heic">>,
   a_mp4  |-> <<"a", ".", "mp4">>,
   b_mp4  |-> <<"b", ".", "mp4">>,
   c_jpg  |-> <<"c", ".", "JPG">>,
   c_mp4  |-> <<"c", ".", "MP4">>,
   d_jpg  |-> <<"d", ".", "jpg">>,
   d_mp4  |-> <<"d", ".", "mp4">>]

Parent ==
  [sub |-> "root", git |-> "root", obj |-> "git",
   a_jpg |-> "root", a_png |-> "root", h_jpg |-> "root", e_heic |-> "root",
   a_mp4 |-> "root", b_mp4 |-> "root",
   c_jpg |-> "sub", c_mp4 |-> "sub", d_jpg |-> "git", d_mp4 |-> "obj"]

\* st_size of each input file, and of the encoder's complete output for it
InSize ==
  [a_jpg |-> 100, a_png |-> 200, c_jpg |-> 50, h_jpg |-> 7, e_heic |-> 9,
   a_mp4 |-> 100, b_mp4 |-> 200, c_mp4 |-> 50, d_jpg |-> 5, d_mp4 |-> 5]

EncSize ==
  [a_jpg |-> 60, a_png |-> 150, c_jpg |-> 50, h_jpg |-> 3, e_heic |-> 4,
   a_mp4 |-> 60, b_mp4 |-> 150, c_mp4 |-> 50, d_jpg |-> 2, d_mp4 |-> 2]

\* what the ffmpeg probe of get_video_bitrate finds in each video, in bps
\* (0 stands for None: no "kb/s" field in the stream line)
BitrateProfiles ==
  { [a_mp4 |-> 2000000, b_mp4 |-> 3000000, c_mp4 |-> 4000000, d_mp4 |-> 0],
    [a_mp4 |-> 2000000, b_mp4 |-> 800000,  c_mp4 |-> 0,       d_mp4 |-> 0] }

\* ------------------------------------------------------------- str and Path
IsPrefix(p, s) == Len(p) <= Len(s) /\ SubSeq(s, 1, Len(p)) = p

IsSuffix(p, s) == Len(p) <= Len(s) /\ SubSeq(s, Len(s) - Len(p) + 1, Len(s)) = p

Lower(s) ==
  [i \in 1..Len(s) |->
     CASE s[i] = "JPG" -> "jpg"
       [] s[i] = "MP4" -> "mp4"
       [] OTHER -> s[i]]

\* index of the last "." of a name, 0 when there is none
LastDot(n) ==
  IF \E i \in 1..Len(n) : n[i] = "."
    THEN CHOOSE i \in 1..Len(n) : n[i] = "." /\ \A j \in (i+1)..Len(n) : n[j] # "."
    ELSE 0

\* pathlib: the suffix starts at the last dot unless that dot leads or ends the name
PathSuffix(n) ==
  IF LastDot(n) > 1 /\ LastDot(n) < Len(n) THEN SubSeq(n, LastDot(n), Len(n)) ELSE <<>>

PathStem(n) ==
  IF LastDot(n) > 1 /\ LastDot(n) < Len(n) THEN SubSeq(n, 1, LastDot(n) - 1) ELSE n

IsDir(e) == e \in Dirs

IsFile(e) == e \in Files

\* ------------------------------------------------------------ configuration
\* WebpConverter.supported_formats and VideoCompressor.supported_formats
ImageFormats ==
  { <<".", "jpg">>, <<".", "jpeg">>, <<".", "png">>, <<"heic">>, <<".", "heif">> }

VideoFormats ==
  { <<".", "mp4">>, <<".", "mov">>, <<".", "avi">>, <<".", "mkv">>,
    <<".", "webm">>, <<".", "flv">>, <<".", "m4v">> }

SupportedFormats(mode) == IF mode = "image" THEN ImageFormats ELSE VideoFormats

\* DirectoryProcessor.skip_dir_patterns and skip_file_patterns
skip_dir_patterns == << <<"@", "*">>, <<".", "*">> >>

skip_file_patterns == << <<".", "*">> >>

\* the -b argument: absent, well formed, or not a number
Bitrates == {"none", "1M", "abc"}

\* parse_bitrate: bps of a bitrate string, -1 where int() raises ValueError
parse_bitrate(b) ==
  CASE b = "1M"   -> 1 * 1024 * 1024
    [] b = "500k" -> 500 * 1024
    [] OTHER      -> -1

Configs ==
  { [mode |-> "image", workers |-> n, bitrate |-> "none", probe |-> p, tree |-> tr] :
      n \in 1..MaxWorkers,
      p \in {CHOOSE q \in BitrateProfiles : TRUE},
      tr \in DOMAIN Trees }
  \cup
  { [mode |-> "video", workers |-> n, bitrate |-> b, probe |-> p, tree |-> tr] :
      n \in 1..MaxWorkers, b \in Bitrates, p \in BitrateProfiles,
      tr \in DOMAIN Trees }

\* --------------------------------------------------------------- PathFilter
\* one pattern against a name: the three branches of the loop body
PatternMatches(pattern, name) ==
  IF pattern # <<>> /\ pattern[Len(pattern)] = "*"
       /\ IsPrefix(SubSeq(pattern, 1, Len(pattern) - 1), name)
    THEN TRUE
    ELSE IF pattern # <<>> /\ pattern[1] = "*"
              /\ IsSuffix(SubSeq(pattern, 2, Len(pattern)), name)
      THEN TRUE
      ELSE pattern = name

\* mutant: the loop answers at its first pattern, whether it matches or not
FirstMatchHeadOnly(patterns, name) ==
  patterns # <<>> /\ PatternMatches(Head(patterns), name)

RECURSIVE FirstMatch(_, _)
\* the for loop over the patterns: TRUE at the first pattern that matches
FirstMatch(patterns, name) ==
  IF patterns = <<>> THEN FALSE
  ELSE IF PatternMatches(Head(patterns), name) THEN TRUE
  ELSE FirstMatch(Tail(patterns), name)

\* mutant: no directory is skipped
should_skip_dir_never(d) == FALSE

should_skip_dir(d) == FirstMatch(skip_dir_patterns, Name[d])

should_skip_file(f) == FirstMatch(skip_file_patterns, Name[f])

HasSupportedSuffix(f, mode) == Lower(PathSuffix(Name[f])) \in SupportedFormats(mode)

\* ------------------------------------------------------------ TreeCollector
RECURSIVE Collect(_, _, _, _)
\* _collect: ls is what iterdir lists for each directory, items is what is left
\* to visit, depth first in listing order; acc gathers the files, the appends
\* to skipped_files / skipped_dirs and the directories iterdir was called on
Collect(ls, items, mode, acc) ==
  IF items = <<>> THEN acc
  ELSE LET item == Head(items)
           rest == Tail(items)
       IN IF IsFile(item) /\ HasSupportedSuffix(item, mode)
            THEN IF should_skip_file(item)
                   THEN Collect(ls, rest, mode, [acc EXCEPT !.sf = Append(@, item)])
                   ELSE Collect(ls, rest, mode, [acc EXCEPT !.files = Append(@, item)])
          ELSE IF IsDir(item)
            THEN IF should_skip_dir(item)
                   THEN Collect(ls, rest, mode, [acc EXCEPT !.sd = Append(@, item)])
                   ELSE Collect(ls, ls[item] \o rest, mode,
                                [acc EXCEPT !.listed = Append(@, item)])
          ELSE Collect(ls, rest, mode, acc)

\* mutant: the walk takes the files of the first directory and goes no deeper
collect_all_flat(ls, mode) ==
  Collect(ls, SelectSeq(ls["root"], IsFile), mode,
          [files |-> <<>>, sd |-> <<>>, sf |-> <<>>, listed |-> <<"root">>])

collect_all_files(ls, mode) ==
  Collect(ls, ls["root"], mode,
          [files |-> <<>>, sd |-> <<>>, sf |-> <<>>, listed |-> <<"root">>])

RECURSIVE CollectLevel(_, _, _)
\* the loop of collect_current_dir_files: immediate children only
CollectLevel(items, mode, acc) ==
  IF items = <<>> THEN acc
  ELSE LET item == Head(items)
           rest == Tail(items)
       IN IF IsFile(item) /\ HasSupportedSuffix(item, mode)
            THEN IF should_skip_file(item)
                   THEN CollectLevel(rest, mode, [acc EXCEPT !.sf = Append(@, item)])
                   ELSE CollectLevel(rest, mode, [acc EXCEPT !.files = Append(@, item)])
          ELSE IF IsDir(item)
            THEN IF should_skip_dir(item)
                   THEN CollectLevel(rest, mode, [acc EXCEPT !.sd = Append(@, item)])
                   ELSE CollectLevel(rest, mode, [acc EXCEPT !.subdirs = Append(@, item)])
          ELSE CollectLevel(rest, mode, acc)

\* mutant: the subdirectories of the directory are not collected
collect_current_dir_flat(ls, d, mode) ==
  [CollectLevel(ls[d], mode,
                [files |-> <<>>, subdirs |-> <<>>, sd |-> <<>>, sf |-> <<>>])
     EXCEPT !.subdirs = <<>>]

collect_current_dir_files(ls, d, mode) ==
  CollectLevel(ls[d], mode,
               [files |-> <<>>, subdirs |-> <<>>, sd |-> <<>>, sf |-> <<>>])

\* --------------------------------------------------------- OutputPathMapper
\* output path of a file: the mirrored directory and the output name
\* (img2webp.py: stem + ".webp"; video_compress.py: stem + suffix)
OutputPath(f, mode) ==
  << Parent[f],
     IF mode = "image" THEN PathStem(Name[f]) \o <<".", "webp">>
                       ELSE PathStem(Name[f]) \o PathSuffix(Name[f]) >>

\* temp path (img2webp.py: stem + ".webp.tmp"; video: stem + ".tmp." + suffix)
TempPath(f, mode) ==
  << Parent[f],
     IF mode = "image" THEN PathStem(Name[f]) \o <<".", "webp", ".", "tmp">>
                       ELSE PathStem(Name[f]) \o <<".", "tmp", ".">> \o PathSuffix(Name[f]) >>

Modes == {"image", "video"}

\* the paths of the output tree a converter of mode m can name: those of the
\* files with an extension it takes
Paths ==
  [m \in Modes |->
     UNION { {OutputPath(f, m), TempPath(f, m)} :
               f \in { g \in Files : HasSupportedSuffix(g, m) } }]

\* the paths and the listings of the unchanged input tree, worked out once
OutputPathOf == [m \in Modes |-> [f \in Files |-> OutputPath(f, m)]]

TempPathOf == [m \in Modes |-> [f \in Files |-> TempPath(f, m)]]

AllFilesOf ==
  [tr \in DOMAIN Trees |-> [m \in Modes |-> collect_all_files(Trees[tr], m)]]

LevelOf ==
  [tr \in DOMAIN Trees |->
     [m \in Modes |-> [d \in Dirs |-> collect_current_dir_files(Trees[tr], d, m)]]]

\* --------------------------------------------------------------- filesystem
NoFile == [st |-> "none", src |-> "-", via |-> "-", w |-> {}]

Exists(fsys, p) == fsys[p].st # "none"

\* st_size of a file of the output tree
SizeOf(file) ==
  IF file.st = "complete"
    THEN IF file.via = "copy" THEN InSize[file.src] ELSE EncSize[file.src]
    ELSE 1

\* open(p, "wb") by task t writing from input f: creates the file, or truncates
\* the one that is there; truncating under another writer garbles it for good
OpenForWrite(fsys, p, t, how) ==
  [fsys EXCEPT ![p] =
     [st  |-> IF @.w # {} THEN "garbled" ELSE "partial",
      src |-> t, via |-> how, w |-> @.w \cup {t}]]

\* the writer t closes its file, wherever that file is linked now: after a
\* complete write the file is complete if t alone wrote it
CloseWrite(fsys, t, ok) ==
  [p \in DOMAIN fsys |->
     IF t \in fsys[p].w
       THEN [fsys[p] EXCEPT !.w = @ \ {t},
                            !.st = IF ok /\ @ = "partial" /\ fsys[p].src = t
                                     THEN "complete" ELSE @]
       ELSE fsys[p]]

Unlink(fsys, p) == [fsys EXCEPT ![p] = NoFile]

\* os.rename(src, dst): dst is replaced, the open file moves with its writers
Rename(fsys, src, dst) == [fsys EXCEPT ![dst] = fsys[src], ![src] = NoFile]

\* calc_save_space(input_file, output_file)
calc_save_space(fsys, f, p) ==
  [original_size |-> InSize[f], processed_size |-> SizeOf(fsys[p])]

\* -------------------------------------------------------------------- state
VARIABLES
  cfg,            \* command line: mode, workers, bitrate; the input tree and the probe results
  run,            \* number of runs started
  dpc,            \* where the driver (MediaProcessor.process) is
  todo,           \* directories the recursion of _process_directory has yet to enter
  subdirs,        \* subdirs of the directory whose batch is draining
  batch,          \* tasks of the current Pool, in submission order
  tpc,            \* where each task's process_file call is
  enc,            \* each task's encoder subprocess
  resq,           \* Pool's result queue, in completion order
  fs,             \* files of the output tree
  odirs,          \* directories of the output tree
  tracker,        \* GlobalProgressTracker: total_files, processed, success
  stats,          \* MediaProcessor.stats
  skipped_dirs,   \* DirectoryProcessor.skipped_dirs
  skipped_files,  \* DirectoryProcessor.skipped_files
  kills,          \* signals so far: workers killed, runs interrupted
  hist,           \* this run's history: what was listed, entered, dispatched, consumed
                  \* and logged, the calls on the tracker, the temp files still there
                  \* from before, the encoders that exited with 0
  prev,           \* how the run before ended: the output files if it converted
                  \* them all, the directories and the log it left, its options
  ifiles,         \* files the program has made in the input tree: its log file
  local,          \* a per-directory tracker: total, processed, success
  llog,           \* the calls made on that tracker and the lines it logged
  flt,            \* a skip filter: its patterns, the name it is asked about, its answer
  walk,           \* two walks of one tree: the listings given and what was collected
  pool            \* a command line's -w option, the host's cores, self.workers, the Pool

\* the state of the components that are exercised on their own
auxVars == << local, llog, flt, walk, pool >>

vars == << cfg, run, dpc, todo, subdirs, batch, tpc, enc, resq, fs, odirs, tracker,
           stats, skipped_dirs, skipped_files, kills, hist, prev, ifiles, auxVars >>

driverVars == << dpc, todo, subdirs, batch, tracker, stats, skipped_dirs, skipped_files >>

NoHist ==
  [dispatched |-> <<>>, consumed |-> <<>>, lines |-> <<>>, encoded |-> {},
   existed |-> {}, raced |-> {}, escaped |-> <<>>,
   finished |-> FALSE, counted |-> <<>>, pools |-> 0, nodep |-> FALSE,
   stale |-> {}, retried |-> {}, exit0 |-> {}, listed |-> {},
   entered |-> <<>>, started |-> <<>>, closed |-> <<>>]

\* the components exercised on their own, before anything is done with them
AuxIdle ==
  /\ local = [total |-> 0, processed |-> 0, success |-> 0]
  /\ llog = [calls |-> <<>>, lines |-> <<>>]
  /\ flt = [patterns |-> <<>>, name |-> <<>>, asked |-> FALSE, skip |-> FALSE]
  /\ walk = [mode |-> "image", ls |-> << >>, all |-> << >>, level |-> << >>]
  /\ pool = [mode |-> "image", arg |-> [some |-> FALSE, n |-> 0], cores |-> 1,
             workers |-> 0, at |-> "main"]

\* before the first run of the command c on an output tree that is not there yet
Fresh(c) ==
  /\ cfg = c
  /\ ifiles = {}
  /\ run = 0
  /\ dpc = "idle"
  /\ todo = <<>>
  /\ subdirs = <<>>
  /\ batch = <<>>
  /\ tpc = [f \in Files |-> "idle"]
  /\ enc = [f \in Files |-> "none"]
  /\ resq = <<>>
  /\ fs = [p \in Paths[cfg.mode] |-> NoFile]
  /\ odirs = {}
  /\ tracker = [total_files |-> 0, processed |-> 0, success |-> 0]
  /\ stats = [processed_files |-> 0, original_size |-> 0, processed_size |-> 0]
  /\ skipped_dirs = <<>>
  /\ skipped_files = <<>>
  /\ kills = 0
  /\ hist = NoHist
  /\ prev = [fs |-> fs, odirs |-> {}, ifiles |-> {}, ok |-> FALSE, cfg |-> cfg]

Init == \E c \in Configs : Fresh(c) /\ AuxIdle

\* no run is made while a component is exercised on its own
NoRun == Fresh(CHOOSE c \in Configs : c.mode = "image")

mainVars == << cfg, run, dpc, todo, subdirs, batch, tpc, enc, resq, fs, odirs, tracker,
               stats, skipped_dirs, skipped_files, kills, hist, prev, ifiles >>

Range(s) == { s[i] : i \in 1..Len(s) }

Running == { "chk", "paths", "tmpchk", "tmpdel", "spawn", "wait", "deltmp", "move",
             "copy", "copying", "hchk", "hdel" }

InFlight == { t \in Files : tpc[t] \in Running }

\* the driver waits for a result that will never come: its worker was killed
Hung ==
  /\ dpc = "draining"
  /\ resq = <<>>
  /\ \A t \in Range(batch) : tpc[t] \in {"returned", "killed"}
  /\ \E t \in Range(batch) : tpc[t] = "killed"

RunOver == dpc \in {"idle", "done", "exit1", "crashed", "interrupted"} \/ Hung

AllOk(h) == \A i \in 1..Len(h.consumed) : h.consumed[i].status = "ok"

\* ------------------------------------------------------------------- driver
\* main: setup_logging opens the log file in the input directory, then
\* WebpConverter(...) / VideoCompressor(...): MediaProcessor.__init__ and
\* DirectoryProcessor.__init__, which makes the output root.  A later run is
\* started once the one before is over and its encoders have exited; its -b
\* option may differ, the input tree is the same
Construct ==
  /\ RunOver
  /\ run < MaxRuns
  /\ \A t \in Files : enc[t] # "writing"
  /\ run' = run + 1
  /\ dpc' = "constructed"
  /\ odirs' = odirs \cup {"root"}
  /\ todo' = <<>>
  /\ subdirs' = <<>>
  /\ batch' = <<>>
  /\ tpc' = [f \in Files |-> "idle"]
  /\ enc' = [f \in Files |-> "none"]
  /\ resq' = <<>>
  /\ tracker' = [total_files |-> 0, processed |-> 0, success |-> 0]
  /\ stats' = [processed_files |-> 0, original_size |-> 0, processed_size |-> 0]
  /\ skipped_dirs' = <<>>
  /\ skipped_files' = <<>>
  /\ hist' = [NoHist EXCEPT
                !.stale = { p \in { TempPathOf[cfg.mode][f] : f \in Files } \cap DOMAIN fs :
                              Exists(fs, p) }]
  /\ ifiles' = ifiles \cup {"log"}
  /\ prev' = [fs |-> IF dpc = "done" /\ AllOk(hist) THEN fs
                                                     ELSE [p \in DOMAIN fs |-> NoFile],
              odirs |-> odirs, ifiles |-> ifiles,
              ok |-> dpc = "done" /\ AllOk(hist), cfg |-> cfg]
  /\ cfg' \in IF run = 0 THEN {cfg}
              ELSE { c \in Configs : /\ c.mode = cfg.mode
                                      /\ c.probe = cfg.probe
                                      /\ c.workers = cfg.workers
                                      /\ c.tree = cfg.tree }
  /\ UNCHANGED << fs, kills, auxVars >>

\* process(): check_dependencies; False makes process() return False
CheckDependencies ==
  /\ dpc = "constructed"
  /\ \E available \in BOOLEAN :
       /\ dpc' = IF available THEN "counting" ELSE "exit1"
       /\ hist' = [hist EXCEPT !.nodep = ~available]
  /\ UNCHANGED << cfg, run, todo, subdirs, batch, tpc, enc, resq, fs, odirs, tracker,
                  stats, skipped_dirs, skipped_files, kills, prev, ifiles, auxVars >>

\* process(): collect_all_files, the total, the shared stats and the tracker
Counting ==
  /\ dpc = "counting"
  /\ LET all == AllFilesOf[cfg.tree][cfg.mode]
         total_files == Len(all.files)
     IN /\ skipped_dirs' = skipped_dirs \o all.sd
        /\ skipped_files' = skipped_files \o all.sf
        /\ hist' = [hist EXCEPT !.counted = all.files,
                                !.listed = @ \cup Range(all.listed)]
        /\ IF total_files = 0
             THEN /\ dpc' = "exit1"
                  /\ UNCHANGED << tracker, stats, todo >>
             ELSE /\ dpc' = "traversing"
                  /\ stats' = [processed_files |-> 0, original_size |-> 0,
                               processed_size |-> 0]
                  /\ tracker' = [total_files |-> total_files, processed |-> 0,
                                 success |-> 0]
                  /\ todo' = <<"root">>
  /\ UNCHANGED << cfg, run, subdirs, batch, tpc, enc, resq, fs, odirs, kills, prev, ifiles, auxVars >>

\* mutant: start_directory starts the count of processed files again
StartDirectoryResets(tr, total_files) == [tr EXCEPT !.processed = 0]

\* GlobalProgressTracker.start_directory: two log lines, no counter touched
GlobalStartDirectory(tr, total_files) == tr

\* mutant: update counts every result as a success
GlobalUpdateCountsAll(tr, status) ==
  [tr EXCEPT !.processed = @ + 1, !.success = @ + 1]

\* GlobalProgressTracker.update
GlobalUpdate(tr, status) ==
  [tr EXCEPT !.processed = @ + 1,
             !.success = IF status THEN @ + 1 ELSE @]

\* mutant: update logs its line for a success only
GlobalLinesOfSuccess(tr, status) ==
  IF status THEN << [ok |-> TRUE, k |-> tr.processed, of |-> tr.total_files] >>
            ELSE << >>

\* GlobalProgressTracker.update: what it logs, with the counters as it has just
\* set them: the line of a success if status, else the line of a failure
GlobalLines(tr, status) ==
  IF status THEN << [ok |-> TRUE, k |-> tr.processed, of |-> tr.total_files] >>
            ELSE << [ok |-> FALSE, k |-> tr.processed, of |-> tr.total_files] >>

\* mutant: a torn update, the sizes are overwritten instead of added
RecordStatsTorn(st, status, res) ==
  IF status
    THEN [processed_files |-> st.processed_files + 1,
          original_size   |-> res.original_size,
          processed_size  |-> res.processed_size]
    ELSE st

\* the body of the with self.stats_lock block
RecordStats(st, status, res) ==
  IF status
    THEN [processed_files |-> st.processed_files + 1,
          original_size   |-> st.original_size + res.original_size,
          processed_size  |-> st.processed_size + res.processed_size]
    ELSE st

\* mutant: a directory without files of its own is left at once
RecurseNot(got, rest) == rest

\* for subdir in subdirs: self._process_directory(subdir), reached without a
\* Pool when the directory has no files: its subdirectories come before what
\* is left to enter
RecurseFrom(got, rest) == got.subdirs \o rest

\* _process_directory up to the Pool: list the directory; with files, start the
\* tracker's directory, make the Pool and submit the tasks; without, recurse
EnterDirectory ==
  /\ dpc = "traversing"
  /\ todo # <<>>
  /\ LET d == Head(todo)
         got == LevelOf[cfg.tree][cfg.mode][d]
     IN /\ skipped_dirs' = skipped_dirs \o got.sd
        /\ skipped_files' = skipped_files \o got.sf
        /\ IF got.files # <<>>
             THEN /\ tracker' = GlobalStartDirectory(tracker, Len(got.files))
                  /\ batch' = got.files
                  /\ subdirs' = got.subdirs
                  /\ todo' = Tail(todo)
                  /\ tpc' = [f \in Files |-> IF f \in Range(got.files) THEN "queued"
                                                                     ELSE tpc[f]]
                  /\ hist' = [hist EXCEPT !.dispatched = @ \o got.files,
                                          !.pools = @ + 1,
                                          !.listed = @ \cup {d},
                                          !.entered = Append(@, d),
                                          !.started = Append(@, d)]
                  /\ dpc' = "draining"
             ELSE /\ todo' = RecurseFrom(got, Tail(todo))
                  /\ hist' = [hist EXCEPT !.listed = @ \cup {d},
                                          !.entered = Append(@, d)]
                  /\ UNCHANGED << tracker, batch, subdirs, tpc, dpc >>
  /\ UNCHANGED << cfg, run, enc, resq, fs, odirs, stats, kills, prev, ifiles, auxVars >>

\* mutant: the loop ends as soon as no result is waiting
BatchDrainedEarly == resq = <<>>

\* every result of the batch has been taken from imap_unordered
BatchDrained ==
  /\ resq = <<>>
  /\ \A t \in Range(batch) : tpc[t] = "returned"

\* one turn of the for loop over imap_unordered: the next result in completion
\* order; an exception raised in the worker is raised again here, which leaves
\* the with block (Pool.terminate) and process()
Drain ==
  /\ dpc = "draining"
  /\ resq # <<>>
  /\ LET r == Head(resq)
     IN /\ resq' = Tail(resq)
        /\ IF r.status = "exc"
             THEN /\ dpc' = "crashed"
                  /\ tpc' = [f \in Files |->
                               IF tpc[f] \in Running \cup {"queued"} THEN "killed"
                                                                     ELSE tpc[f]]
                  /\ fs' = [p \in DOMAIN fs |->
                              [fs[p] EXCEPT !.w = { t \in @ : tpc[t] # "copying" }]]
                  /\ hist' = [hist EXCEPT !.escaped = Append(@, r)]
                  /\ UNCHANGED << tracker, stats >>
             ELSE /\ tracker' = GlobalUpdate(tracker, r.status = "ok")
                  /\ stats' = RecordStats(stats, r.status = "ok", r)
                  /\ hist' = [hist EXCEPT
                                !.consumed = Append(@, r),
                                !.lines = @ \o GlobalLines(tracker', r.status = "ok")]
                  /\ UNCHANGED << dpc, tpc, fs >>
  /\ UNCHANGED << cfg, run, todo, subdirs, batch, enc, odirs, skipped_dirs,
                  skipped_files, kills, prev, ifiles, auxVars >>

\* SIGINT while the driver waits for the next result: KeyboardInterrupt leaves
\* the with block (Pool.terminate) and process(); main says the operation was
\* cancelled and exits with 1.  The workers are gone, a copy stops where it is,
\* an encoder that still runs is on its own
Interrupt ==
  /\ dpc = "draining"
  /\ kills < MaxKills
  /\ kills' = kills + 1
  /\ dpc' = "interrupted"
  /\ tpc' = [f \in Files |-> IF tpc[f] \in Running \cup {"queued"} THEN "killed"
                                                                     ELSE tpc[f]]
  /\ fs' = [p \in DOMAIN fs |->
              [fs[p] EXCEPT !.w = { t \in @ : tpc[t] # "copying" }]]
  /\ UNCHANGED << cfg, run, todo, subdirs, batch, enc, resq, odirs, tracker, stats,
                  skipped_dirs, skipped_files, hist, prev, ifiles, auxVars >>

\* the for loop ends: leave the with block, finish_directory, then the loop
\* over subdirs, depth first
FinishBatch ==
  /\ dpc = "draining"
  /\ BatchDrained
  /\ dpc' = "traversing"
  /\ todo' = subdirs \o todo
  /\ subdirs' = <<>>
  /\ batch' = <<>>
  /\ hist' = [hist EXCEPT !.closed = Append(@, Parent[batch[1]])]
  /\ UNCHANGED << cfg, run, tpc, enc, resq, fs, odirs, tracker, stats, skipped_dirs,
                  skipped_files, kills, prev, ifiles, auxVars >>

\* process() after _process_directory returns: logI_skip_stats, finish_all, the
\* totals, return True
Report ==
  /\ dpc = "traversing"
  /\ todo = <<>>
  /\ dpc' = "done"
  /\ hist' = [hist EXCEPT !.finished = TRUE]
  /\ UNCHANGED << cfg, run, todo, subdirs, batch, tpc, enc, resq, fs, odirs, tracker,
                  stats, skipped_dirs, skipped_files, kills, prev, ifiles, auxVars >>

\* ------------------------------------------------------------------ workers
Out(t) == OutputPathOf[cfg.mode][t]

Tmp(t) == TempPathOf[cfg.mode][t]

\* mutant: the existence checks of the output path are left out
OutputExistsNever(t) == FALSE

\* output_path.exists()
OutputExists(t) == Exists(fs, Out(t))

\* the (status, stats) pair a task returns, or the exception it lets escape
Success(t, fsys, note) ==
  [file |-> t, status |-> "ok", note |-> note,
   original_size |-> calc_save_space(fsys, t, Out(t)).original_size,
   processed_size |-> calc_save_space(fsys, t, Out(t)).processed_size]

Failure(t) ==
  [file |-> t, status |-> "fail", note |-> "error",
   original_size |-> 0, processed_size |-> 0]

Escaped(t) ==
  [file |-> t, status |-> "exc", note |-> "exception",
   original_size |-> 0, processed_size |-> 0]

\* the worker puts its result on the Pool's result queue
Return(t, r) ==
  /\ resq' = Append(resq, r)
  /\ tpc' = [tpc EXCEPT ![t] = "returned"]

Goto(t, pc) == tpc' = [tpc EXCEPT ![t] = pc]

\* format_size(size) compares size < 1024: TypeError when size is None (0 here)
FormatSizeRaises(size) == size = 0

\* process_video lines 212-214: the probe, parse_bitrate of the -b argument
\* (None without -b) and the logI of both through format_size
ProbeRaises(t) ==
  LET original_bitrate == cfg.probe[t]
      target_bitrate == IF cfg.bitrate = "none" THEN 0 ELSE parse_bitrate(cfg.bitrate)
  IN \/ target_bitrate = -1
     \/ FormatSizeRaises(original_bitrate)
     \/ FormatSizeRaises(target_bitrate)

\* process_video line 217: original_bitrate and target_bitrate and
\* original_bitrate <= target_bitrate
TakesCopy(t) ==
  /\ cfg.mode = "video"
  /\ cfg.probe[t] # 0
  /\ cfg.bitrate # "none"
  /\ parse_bitrate(cfg.bitrate) # 0
  /\ cfg.probe[t] <= parse_bitrate(cfg.bitrate)

\* a free worker of the Pool takes the next task of the queue and runs
\* process_file up to its first look at the output tree.
\* image: rel_path, output_dir.mkdir, the two paths.
\* video: process_file's logging, then process_video's probe and logging.
TaskStart(t) ==
  /\ dpc = "draining"
  /\ tpc[t] = "queued"
  /\ \A i \in 1..Len(batch) :
       batch[i] = t => \A j \in 1..(i-1) : tpc[batch[j]] # "queued"
  /\ Cardinality(InFlight) < cfg.workers
  /\ hist' = [hist EXCEPT
                !.existed = IF Exists(fs, Out(t)) THEN @ \cup {t} ELSE @,
                !.retried = IF Tmp(t) \in hist.stale /\ ~Exists(fs, Out(t))
                              THEN @ \cup {t} ELSE @]
  /\ IF cfg.mode = "image"
       THEN /\ odirs' = odirs \cup {"root", Parent[t]}
            /\ Goto(t, "chk")
            /\ UNCHANGED resq
       ELSE /\ IF ProbeRaises(t) THEN Return(t, Escaped(t))
                                 ELSE Goto(t, "paths") /\ UNCHANGED resq
            /\ UNCHANGED odirs
  /\ UNCHANGED << cfg, run, driverVars, enc, fs, kills, prev, ifiles, auxVars >>

\* get_output_path lines 88-92: rel_path, output_dir.mkdir, the two paths
VideoPaths(t) ==
  /\ tpc[t] = "paths"
  /\ odirs' = odirs \cup {"root", Parent[t]}
  /\ Goto(t, "tmpchk")
  /\ UNCHANGED << cfg, run, driverVars, enc, resq, fs, kills, hist, prev, ifiles, auxVars >>

\* where a task goes once the stale temp file is out of the way
AfterTemp(t) == IF cfg.mode = "image" THEN "spawn" ELSE "chk"

\* if temp_file.exists()
CheckTemp(t) ==
  /\ tpc[t] = "tmpchk"
  /\ Goto(t, IF Exists(fs, Tmp(t)) THEN "tmpdel" ELSE AfterTemp(t))
  /\ UNCHANGED << cfg, run, driverVars, enc, resq, fs, odirs, kills, hist, prev, ifiles, auxVars >>

\* temp_file.unlink() before the try: FileNotFoundError escapes the task
DeleteTemp(t) ==
  /\ tpc[t] = "tmpdel"
  /\ IF Exists(fs, Tmp(t))
       THEN /\ fs' = Unlink(fs, Tmp(t))
            /\ Goto(t, AfterTemp(t))
            /\ UNCHANGED resq
       ELSE /\ Return(t, Escaped(t))
            /\ UNCHANGED fs
  /\ hist' = [hist EXCEPT !.stale = @ \ {Tmp(t)}]
  /\ UNCHANGED << cfg, run, driverVars, enc, odirs, kills, prev, ifiles, auxVars >>

\* where a task goes when its output is not there yet
AfterCheck(t) ==
  IF cfg.mode = "image" THEN "tmpchk"
  ELSE IF TakesCopy(t) THEN "copy" ELSE "spawn"

\* if output_path.exists(): the stats of the existing output, success
CheckOutput(t) ==
  /\ tpc[t] = "chk"
  /\ IF OutputExists(t)
       THEN Return(t, Success(t, fs, "existing"))
       ELSE Goto(t, AfterCheck(t)) /\ UNCHANGED resq
  /\ UNCHANGED << cfg, run, driverVars, enc, fs, odirs, kills, hist, prev, ifiles, auxVars >>

\* shutil.copy2(video_path, output_path) opens the output for writing
CopyOpen(t) ==
  /\ tpc[t] = "copy"
  /\ fs' = OpenForWrite(fs, Out(t), t, "copy")
  /\ Goto(t, "copying")
  /\ UNCHANGED << cfg, run, driverVars, enc, resq, odirs, kills, hist, prev, ifiles, auxVars >>

\* shutil.copy2 returns; calc_save_space; success
CopyFinish(t) ==
  /\ tpc[t] = "copying"
  /\ fs' = CloseWrite(fs, t, TRUE)
  /\ Return(t, Success(t, fs', "copied"))
  /\ UNCHANGED << cfg, run, driverVars, enc, odirs, kills, hist, prev, ifiles, auxVars >>

\* subprocess.run(cmd) / execute_ffmpeg's Popen: the encoder starts and opens
\* temp_file for writing, or stops with an error before it writes anything
Spawn(t) ==
  /\ tpc[t] = "spawn"
  /\ \E opens \in BOOLEAN :
       IF opens
         THEN /\ fs' = OpenForWrite(fs, Tmp(t), t, "enc")
              /\ enc' = [enc EXCEPT ![t] = "writing"]
         ELSE /\ enc' = [enc EXCEPT ![t] = "exitN"]
              /\ UNCHANGED fs
  /\ hist' = [hist EXCEPT !.encoded = @ \cup {t}]
  /\ Goto(t, "wait")
  /\ UNCHANGED << cfg, run, driverVars, resq, odirs, kills, prev, ifiles, auxVars >>

\* the encoder process exits: code 0 after writing its whole output, nonzero
\* (an error, or a signal) with the file as far as it got
EncExit(t) ==
  /\ enc[t] = "writing"
  /\ \E ok \in BOOLEAN :
       /\ fs' = CloseWrite(fs, t, ok)
       /\ enc' = [enc EXCEPT ![t] = IF ok THEN "exit0" ELSE "exitN"]
  /\ UNCHANGED << cfg, run, driverVars, tpc, resq, odirs, kills, hist, prev, ifiles, auxVars >>

\* the worker reaps the encoder and sees its exit code: CalledProcessError on nonzero;
\* (video) RuntimeError when temp_file is not there; then the second
\* output_path.exists()
AfterEncoder(t) ==
  /\ tpc[t] = "wait"
  /\ enc[t] \in {"exit0", "exitN"}
  /\ LET to == IF enc[t] = "exitN" THEN "hchk"
               ELSE IF cfg.mode = "video" /\ ~Exists(fs, Tmp(t)) THEN "hchk"
               ELSE IF OutputExists(t) THEN "deltmp"
               ELSE "move"
     IN /\ Goto(t, to)
        /\ hist' = [hist EXCEPT
                      !.raced = IF to = "deltmp" THEN @ \cup {t} ELSE @,
                      !.exit0 = IF enc[t] = "exit0" THEN @ \cup {t} ELSE @]
  /\ enc' = [enc EXCEPT ![t] = "none"]
  /\ UNCHANGED << cfg, run, driverVars, resq, fs, odirs, kills, prev, ifiles, auxVars >>

\* the output appeared meanwhile: temp_file.unlink(), stats of the existing
\* output, success; unlink of a missing file raises inside the try
DiscardTemp(t) ==
  /\ tpc[t] = "deltmp"
  /\ IF Exists(fs, Tmp(t))
       THEN /\ fs' = Unlink(fs, Tmp(t))
            /\ Return(t, Success(t, fs', "race"))
       ELSE /\ Goto(t, "hchk")
            /\ UNCHANGED << fs, resq >>
  /\ hist' = [hist EXCEPT !.stale = @ \ {Tmp(t)}]
  /\ UNCHANGED << cfg, run, driverVars, enc, odirs, kills, prev, ifiles, auxVars >>

\* shutil.move(temp_file, output_path), calc_save_space, success; a missing
\* temp file raises inside the try
Publish(t) ==
  /\ tpc[t] = "move"
  /\ IF Exists(fs, Tmp(t))
       THEN /\ fs' = Rename(fs, Tmp(t), Out(t))
            /\ Return(t, Success(t, fs', "converted"))
       ELSE /\ Goto(t, "hchk")
            /\ UNCHANGED << fs, resq >>
  /\ hist' = [hist EXCEPT !.stale = @ \ {Tmp(t)}]
  /\ UNCHANGED << cfg, run, driverVars, enc, odirs, kills, prev, ifiles, auxVars >>

\* except ...: if temp_file.exists()
HandlerCheck(t) ==
  /\ tpc[t] = "hchk"
  /\ IF Exists(fs, Tmp(t))
       THEN Goto(t, "hdel") /\ UNCHANGED resq
       ELSE Return(t, Failure(t))
  /\ UNCHANGED << cfg, run, driverVars, enc, fs, odirs, kills, hist, prev, ifiles, auxVars >>

\* except ...: temp_file.unlink(), return False; FileNotFoundError raised in
\* the handler escapes the task
HandlerDelete(t) ==
  /\ tpc[t] = "hdel"
  /\ IF Exists(fs, Tmp(t))
       THEN /\ fs' = Unlink(fs, Tmp(t))
            /\ Return(t, Failure(t))
       ELSE /\ Return(t, Escaped(t))
            /\ UNCHANGED fs
  /\ hist' = [hist EXCEPT !.stale = @ \ {Tmp(t)}]
  /\ UNCHANGED << cfg, run, driverVars, enc, odirs, kills, prev, ifiles, auxVars >>

\* a worker process is killed between two steps; the Pool replaces the worker
\* but the task's result never comes; a copy in progress stops where it is
Kill(t) ==
  /\ dpc = "draining"
  /\ t \in InFlight
  /\ kills < MaxKills
  /\ kills' = kills + 1
  /\ tpc' = [tpc EXCEPT ![t] = "killed"]
  /\ fs' = IF tpc[t] = "copying" THEN CloseWrite(fs, t, FALSE) ELSE fs
  /\ UNCHANGED << cfg, run, driverVars, enc, resq, odirs, hist, prev, ifiles, auxVars >>

\* a step of the task's process_file call or of its encoder
Step(t) ==
  \/ TaskStart(t) \/ VideoPaths(t) \/ CheckTemp(t) \/ DeleteTemp(t) \/ CheckOutput(t)
  \/ CopyOpen(t) \/ CopyFinish(t) \/ Spawn(t) \/ EncExit(t) \/ AfterEncoder(t)
  \/ DiscardTemp(t) \/ Publish(t) \/ HandlerCheck(t) \/ HandlerDelete(t)

Worker(t) == Step(t) \/ Kill(t)

Next ==
  \/ Construct \/ CheckDependencies \/ Counting \/ EnterDirectory \/ Drain
  \/ Interrupt \/ FinishBatch \/ Report
  \/ \E t \in Files : Worker(t)

Spec == Init /\ [][Next]_vars

\* ------------------------------------------- runs that nothing interrupts
\* no signal is sent: no worker is killed, no run is interrupted
NextLive ==
  \/ Construct \/ CheckDependencies \/ Counting \/ EnterDirectory \/ Drain
  \/ FinishBatch \/ Report
  \/ \E t \in Files : Step(t)

\* the driver is a running process; the Pool gives every queued task a worker
\* in the end, the operating system lets every worker run, and every encoder
\* started comes to its exit
Fairness ==
  /\ WF_vars(CheckDependencies \/ Counting \/ EnterDirectory \/ Drain
               \/ FinishBatch \/ Report)
  /\ \A t \in Files : WF_vars(Step(t))

SpecLive == Init /\ [][NextLive]_vars /\ Fairness

\* ------------------------------------------------ the per-directory tracker
\* most files of a directory, most directories started
MaxDirFiles == 3
MaxDirs == 2

\* mutant: start_directory sets the total and leaves the counters as they are
LocalStartKeeps(tr, total_files) == [tr EXCEPT !.total = total_files]

\* start_directory of the tracker that counts by directory
LocalStartDirectory(tr, total_files) ==
  [total |-> total_files, processed |-> 0, success |-> 0]

\* update of that tracker, inside with self.lock: the counters
LocalUpdate(tr, status) ==
  [tr EXCEPT !.processed = @ + 1,
             !.success = IF status THEN @ + 1 ELSE @]

\* update of that tracker: the line it logs, processed/total after the increment
LocalLine(tr, status) == [ok |-> status, k |-> tr.processed, of |-> tr.total]

\* _process_directory finds files in the next directory and starts it on the
\* tracker, the batch of the directory before being drained
LocalStart ==
  /\ Len(llog.calls) < MaxDirs
  /\ llog.calls # <<>> => Len(llog.lines[Len(llog.lines)]) = llog.calls[Len(llog.calls)]
  /\ \E total_files \in 1..MaxDirFiles :
       /\ local' = LocalStartDirectory(local, total_files)
       /\ llog' = [calls |-> Append(llog.calls, total_files),
                   lines |-> Append(llog.lines, <<>>)]
  /\ UNCHANGED << mainVars, flt, walk, pool >>

\* one result of the directory's batch is given to update
LocalResult ==
  /\ llog.calls # <<>>
  /\ Len(llog.lines[Len(llog.lines)]) < llog.calls[Len(llog.calls)]
  /\ \E status \in BOOLEAN :
       /\ local' = LocalUpdate(local, status)
       /\ llog' = [llog EXCEPT !.lines[Len(llog.lines)] =
                                    Append(@, LocalLine(local', status))]
  /\ UNCHANGED << mainVars, flt, walk, pool >>

InitTracker == NoRun /\ AuxIdle

NextTracker == LocalStart \/ LocalResult

SpecTracker == InitTracker /\ [][NextTracker]_vars

\* ------------------------------------------------------------ the skip filter
\* longest name asked about, most patterns in a list
MaxNameLen == 2
MaxPatterns == 2

\* the characters of a name that matter to the filter, and a letter
NameTokens == {"a", ".", "@", "*"}

FilterNames == UNION { [1..k -> NameTokens] : k \in 1..MaxNameLen }

\* patterns: those of skip_dir_patterns and skip_file_patterns, an exact name,
\* a '*foo', a 'foo*' of a letter, and the two with nothing but the star
PatternPool ==
  { <<"@", "*">>, <<".", "*">>, <<"a">>, <<"*", "a">>, <<"a", "*">>, <<"*">>,
    <<"*", "*">> }

PatternLists == UNION { [1..k -> PatternPool] : k \in 0..MaxPatterns }

\* should_skip_dir / should_skip_file with the object's pattern list
AskFilter ==
  /\ ~flt.asked
  /\ flt' = [flt EXCEPT !.asked = TRUE,
                        !.skip = FirstMatch(flt.patterns, flt.name)]
  /\ UNCHANGED << mainVars, local, llog, walk, pool >>

InitFilter ==
  /\ NoRun
  /\ local = [total |-> 0, processed |-> 0, success |-> 0]
  /\ llog = [calls |-> <<>>, lines |-> <<>>]
  /\ walk = [mode |-> "image", ls |-> << >>, all |-> << >>, level |-> << >>]
  /\ pool = [mode |-> "image", arg |-> [some |-> FALSE, n |-> 0], cores |-> 1,
             workers |-> 0, at |-> "main"]
  /\ flt \in [patterns : PatternLists, name : FilterNames, asked : {FALSE},
               skip : {FALSE}]

NextFilter == AskFilter

SpecFilter == InitFilter /\ [][NextFilter]_vars

\* ---------------------------------------------------- the walks of one tree
\* Path.iterdir yields the entries of a directory in the order the filesystem
\* keeps them, which is not the program's to choose: the orders tried are the
\* rotations of a listing and of its reverse
Orders(s) ==
  LET rev == [i \in 1..Len(s) |-> s[Len(s) + 1 - i]]
      rot(q, k) == SubSeq(q, k + 1, Len(q)) \o SubSeq(q, 1, k)
  IN { rot(s, k) : k \in 0..Len(s) } \cup { rot(rev, k) : k \in 0..Len(s) }

\* the listings the filesystem may give of the full tree
ListingOrders ==
  { [root |-> r, sub |-> u, git |-> g, obj |-> o] :
      r \in Orders(Listing["root"]), u \in Orders(Listing["sub"]),
      g \in Orders(Listing["git"]), o \in Orders(Listing["obj"]) }

RECURSIVE Submitted(_, _, _)
\* _process_directory: the files of the directory are submitted as its batch,
\* then its subdirectories are entered in the order they were collected
Submitted(ls, dirs, mode) ==
  IF dirs = <<>> THEN <<>>
  ELSE LET got == collect_current_dir_files(ls, Head(dirs), mode)
       IN got.files \o Submitted(ls, got.subdirs \o Tail(dirs), mode)

\* process() of the next run counts: collect_all_files on the tree as listed
WalkCount ==
  /\ Len(walk.all) < Len(walk.ls)
  /\ Len(walk.all) = Len(walk.level)
  /\ walk' = [walk EXCEPT !.all =
                 Append(@, collect_all_files(walk.ls[Len(@) + 1], walk.mode).files)]
  /\ UNCHANGED << mainVars, local, llog, flt, pool >>

\* the same run traverses: the order in which its tasks are submitted
WalkSubmit ==
  /\ Len(walk.level) < Len(walk.all)
  /\ walk' = [walk EXCEPT !.level =
                 Append(@, Submitted(walk.ls[Len(@) + 1], <<"root">>, walk.mode))]
  /\ UNCHANGED << mainVars, local, llog, flt, pool >>

InitWalk ==
  /\ NoRun
  /\ local = [total |-> 0, processed |-> 0, success |-> 0]
  /\ llog = [calls |-> <<>>, lines |-> <<>>]
  /\ flt = [patterns |-> <<>>, name |-> <<>>, asked |-> FALSE, skip |-> FALSE]
  /\ pool = [mode |-> "image", arg |-> [some |-> FALSE, n |-> 0], cores |-> 1,
             workers |-> 0, at |-> "main"]
  /\ \E m \in Modes : \E l1 \in ListingOrders : \E l2 \in ListingOrders :
       walk = [mode |-> m, ls |-> <<l1, l2>>, all |-> << >>, level |-> << >>]

NextWalk == WalkCount \/ WalkSubmit

SpecWalk == InitWalk /\ [][NextWalk]_vars

\* ------------------------------------------------------- the size of the Pool
\* most cores of the host, largest -w tried
MaxCores == 4
MaxArg == 3

\* Python's None, and an int
None == [some |-> FALSE, n |-> 0]

Some(n) == [some |-> TRUE, n |-> n]

\* the -w option of both command lines, type=int without a default: None when
\* absent, else any integer, of which these are tried
WorkerArgs == {None} \cup { Some(n) : n \in -1..MaxArg }

\* MediaProcessor.__init__: workers if workers else max(3, os.cpu_count()+1);
\* None and 0 are falsy
MediaProcessorWorkers(workers, cpu_count) ==
  IF workers.some /\ workers.n # 0
    THEN workers.n
    ELSE IF cpu_count + 1 > 3 THEN cpu_count + 1 ELSE 3

\* WebpConverter.__init__(self, input_dir, quality=85, workers=None) and
\* VideoCompressor.__init__(self, input_dir, ..., workers=1, ...): the value
\* of the parameter workers, its default when the caller passes none
InitWorkers(mode, passed, workers) ==
  IF passed THEN workers
  ELSE IF mode = "image" THEN None ELSE Some(1)

\* main of img2webp.py and of video_compress.py: the constructor is called with
\* workers=args.workers, whatever args.workers is, and passes it on to
\* MediaProcessor.__init__
MainWorkers(mode, arg, cpu_count) ==
  MediaProcessorWorkers(InitWorkers(mode, TRUE, arg), cpu_count)

\* main constructs the converter: self.workers is set
PoolConstruct ==
  /\ pool.at = "main"
  /\ pool' = [pool EXCEPT !.workers = MainWorkers(pool.mode, pool.arg, pool.cores),
                          !.at = "process"]
  /\ UNCHANGED << mainVars, local, llog, flt, walk >>

\* _process_directory: with Pool(processes=self.workers); Pool raises
\* ValueError when processes < 1
PoolMake ==
  /\ pool.at = "process"
  /\ pool' = [pool EXCEPT !.at = IF pool.workers < 1 THEN "ValueError" ELSE "pool"]
  /\ UNCHANGED << mainVars, local, llog, flt, walk >>

InitPool ==
  /\ NoRun
  /\ local = [total |-> 0, processed |-> 0, success |-> 0]
  /\ llog = [calls |-> <<>>, lines |-> <<>>]
  /\ flt = [patterns |-> <<>>, name |-> <<>>, asked |-> FALSE, skip |-> FALSE]
  /\ walk = [mode |-> "image", ls |-> << >>, all |-> << >>, level |-> << >>]
  /\ pool \in [mode : Modes, arg : WorkerArgs, cores : 1..MaxCores,
                workers : {0}, at : {"main"}]

NextPool == PoolConstruct \/ PoolMake

SpecPool == InitPool /\ [][NextPool]_vars

\* ------------------------------------------------------------------- claims
RECURSIVE UnderSkippedDir(_)
UnderSkippedDir(e) ==
  /\ Parent[e] # "root"
  /\ (should_skip_dir(Parent[e]) \/ UnderSkippedDir(Parent[e]))

RECURSIVE InTree(_, _)
\* the entry is in the tree of the listing ls
InTree(ls, e) ==
  \/ e = "root"
  \/ /\ \E i \in 1..Len(ls[Parent[e]]) : ls[Parent[e]][i] = e
     /\ InTree(ls, Parent[e])

\* in the tree, supported extension, not matched by a skip pattern, not under a
\* skipped directory
EligibleOf ==
  [tr \in DOMAIN Trees |->
     [m \in Modes |-> { f \in Files : /\ InTree(Trees[tr], f)
                                       /\ HasSupportedSuffix(f, m)
                                       /\ ~should_skip_file(f)
                                       /\ ~UnderSkippedDir(f) }]]

EligibleFiles == EligibleOf[cfg.tree][cfg.mode]

OutputPaths == { Out(f) : f \in EligibleFiles }

\* every result task t has produced in this run, wherever it is now
ResultsOf(t) ==
  { r \in Range(resq) \cup Range(hist.consumed) \cup Range(hist.escaped) : r.file = t }

ConsumedFiles == { hist.consumed[i].file : i \in 1..Len(hist.consumed) }

RECURSIVE SumOk(_, _)
\* the sum of a size field over the successful results of a sequence
SumOk(rs, field) ==
  IF rs = <<>> THEN 0
  ELSE (IF Head(rs).status = "ok" THEN Head(rs)[field] ELSE 0) + SumOk(Tail(rs), field)

CountOk(rs) == Cardinality({ i \in 1..Len(rs) : rs[i].status = "ok" })

\* C1: in every reachable state, a file that an encoded conversion put at an
\* output path is a complete encoder output that nobody is still writing:
\* output paths get their files only by the move of a temp file whose encoder
\* call exited with code 0.
C1_OutputIsCompleteEncoderOutput ==
  \A p \in OutputPaths :
    (Exists(fs, p) /\ fs[p].via = "enc") => (fs[p].st = "complete" /\ fs[p].w = {})

\* C2: a task whose output path held a file when the task started never
\* invokes the encoder or the copy, never reaches the publish or the error
\* handler, and every result it produces is a success that carries the sizes
\* of the existing output.
C2_ExistingOutputIsSkipped ==
  \A t \in hist.existed :
    /\ t \notin hist.encoded
    /\ tpc[t] \notin {"spawn", "wait", "copy", "copying", "move", "deltmp", "hchk", "hdel"}
    /\ \A r \in ResultsOf(t) :
         /\ r.status = "ok"
         /\ r.note = "existing"
         /\ r.original_size = InSize[t]
         /\ r.processed_size = SizeOf(fs[Out(t)])

\* C3: in a run that repeats the options of a previous run in which every task
\* succeeded, no encoder is invoked, the output tree stays what the previous
\* run left, every result is the success of an existing output, and at the
\* end every eligible file has its result.
C3_SecondRunIsNoOp ==
  (run >= 2 /\ prev.ok /\ prev.cfg = cfg) =>
    /\ hist.encoded = {}
    /\ fs = prev.fs
    /\ dpc # "crashed"
    /\ \A t \in Files : \A r \in ResultsOf(t) : r.status = "ok" /\ r.note = "existing"
    /\ dpc = "done" => ConsumedFiles = EligibleFiles

C3_Witness ==
  /\ run >= 2 /\ prev.ok /\ prev.cfg = cfg
  /\ dpc = "done"
  /\ ConsumedFiles = EligibleFiles
  /\ Cardinality(EligibleFiles) = 3

\* C4: no file is dispatched twice or has two results consumed, only eligible
\* files are dispatched, and when the driver reports, every eligible file has
\* been dispatched as one task and has had exactly one result, of status True
\* or False, consumed.
C4_OneResultPerEligibleFile ==
  /\ Range(hist.dispatched) \subseteq EligibleFiles
  /\ Cardinality(Range(hist.dispatched)) = Len(hist.dispatched)
  /\ Cardinality(ConsumedFiles) = Len(hist.consumed)
  /\ ConsumedFiles \subseteq Range(hist.dispatched)
  /\ dpc = "done" =>
       /\ Range(hist.dispatched) = EligibleFiles
       /\ ConsumedFiles = EligibleFiles
       /\ Len(hist.consumed) = Cardinality(EligibleFiles)
       /\ \A i \in 1..Len(hist.consumed) : hist.consumed[i].status \in {"ok", "fail"}

C4_Witness ==
  /\ dpc = "done"
  /\ Len(hist.consumed) = 3
  /\ \E i \in 1..3 : hist.consumed[i].status = "fail"
  /\ \E i \in 1..3 : hist.consumed[i].status = "ok"

\* C5: no exception raised inside a task's process_file call leaves the task:
\* no raised exception is on the result queue and the driver never takes one.
C5_NoExceptionEscapes ==
  /\ dpc # "crashed"
  /\ \A i \in 1..Len(resq) : resq[i].status # "exc"

\* C6: a task that finds, after its encoder exited with code 0, that the
\* output path has come into existence since its first check, returns success
\* (it discards its temp file and reports the existing output).
C6_RaceObservedIsSuccess ==
  \A t \in hist.raced :
    \A r \in ResultsOf(t) : r.status = "ok" /\ r.note = "race"

\* C7: a task that leaves its error handler (entered on a nonzero encoder exit
\* or on any exception of the try block) returns a failed result, and its temp
\* path holds no file when it returns.
C7_FailureCleansUp ==
  [][ \A t \in Files :
        (tpc[t] \in {"hchk", "hdel"} /\ tpc'[t] = "returned") =>
          /\ resq'[Len(resq')].status = "fail"
          /\ ~Exists(fs', Tmp(t)) ]_vars

\* the tasks of this run that are not over: queued or running in the Pool,
\* with an encoder still writing, or with a result the driver has yet to take
Busy ==
  { t \in Files : \/ tpc[t] \in Running \cup {"queued"}
                  \/ enc[t] = "writing"
                  \/ \E i \in 1..Len(resq) : resq[i].file = t }

RECURSIVE Ancestors(_)
\* the directories above a directory
Ancestors(d) == IF d = "root" THEN {} ELSE {Parent[d]} \cup Ancestors(Parent[d])

\* the directories above the directory of a file
AboveOf == [f \in Files |-> Ancestors(Parent[f])]

\* C8: all tasks that are not over belong to one directory, and a task is
\* dispatched only after every eligible file of the directories above its own
\* has had its result consumed.
C8_OneBatchAtATime ==
  /\ \A t, u \in Busy : Parent[t] = Parent[u]
  /\ \A t \in Range(hist.dispatched) :
       \A f \in EligibleFiles :
         Parent[f] \in AboveOf[t] => f \in ConsumedFiles

C8_Witness ==
  /\ \E t \in InFlight : Parent[t] = "sub"
  /\ \E f \in ConsumedFiles : Parent[f] = "root"

\* C9: the stats always hold the number of successful results consumed and
\* the sums of their original and processed sizes; so they do after all
\* batches are drained.
C9_StatsAreSums ==
  /\ stats.processed_files = CountOk(hist.consumed)
  /\ stats.original_size = SumOk(hist.consumed, "original_size")
  /\ stats.processed_size = SumOk(hist.consumed, "processed_size")

C9_Witness ==
  /\ dpc = "done"
  /\ cfg.workers = 2
  /\ stats = [processed_files |-> 3, original_size |-> 350, processed_size |-> 260]

\* C10: the k-th progress line of the run reports k out of the total that the
\* counting walk found, across directories; the processed counter equals the
\* number of results consumed, never exceeds that total (the number of
\* eligible files), and equals it when finish_all is called.
C10_GlobalProgress ==
  /\ \A i \in 1..Len(hist.lines) :
       hist.lines[i].k = i /\ hist.lines[i].of = Len(hist.counted)
  /\ tracker.processed = Len(hist.consumed)
  /\ tracker.processed <= tracker.total_files
  /\ dpc \in {"traversing", "draining", "done", "crashed", "interrupted"} =>
       tracker.total_files = Cardinality(EligibleFiles)
  /\ hist.finished => tracker.processed = tracker.total_files

C10_Witness ==
  /\ hist.finished
  /\ Len(hist.lines) = 3
  /\ hist.lines[3].k = 3
  /\ Parent[hist.consumed[3].file] = "sub"
\* C11: with the tracker that counts by directory, the k-th update after
\* start_directory(.., n) reports k/n, whatever was counted in the directories
\* before: the counters start again at 0 and the denominator is n
C11_PerDirectoryProgress ==
  /\ \A d \in 1..Len(llog.lines) :
       \A k \in 1..Len(llog.lines[d]) :
         llog.lines[d][k].k = k /\ llog.lines[d][k].of = llog.calls[d]
  /\ llog.calls # <<>> =>
       LET now == llog.lines[Len(llog.lines)]
       IN /\ local.total = llog.calls[Len(llog.calls)]
          /\ local.processed = Len(now)
          /\ local.success = Cardinality({ k \in 1..Len(now) : now[k].ok })

\* directories A (3 files) then B (2 files): 1/3, 2/3, 3/3, 1/2, 2/2
C11_Witness ==
  /\ llog.calls = <<3, 2>>
  /\ [k \in 1..3 |-> <<llog.lines[1][k].k, llog.lines[1][k].of>>]
       = << <<1, 3>>, <<2, 3>>, <<3, 3>> >>
  /\ [k \in 1..Len(llog.lines[2]) |-> <<llog.lines[2][k].k, llog.lines[2][k].of>>]
       = << <<1, 2>>, <<2, 2>> >>
\* a pattern matches a name by equality, as 'foo*' by prefix, as '*foo' by suffix
Matches(pattern, name) ==
  \/ pattern = name
  \/ /\ pattern[Len(pattern)] = "*"
     /\ \E k \in 0..Len(name) : SubSeq(name, 1, k) = SubSeq(pattern, 1, Len(pattern) - 1)
  \/ /\ pattern[1] = "*"
     /\ \E k \in 1..(Len(name) + 1) : SubSeq(name, k, Len(name)) = Tail(pattern)

\* C12: the filter answers True for a name exactly when some pattern of its
\* list matches the name, and False when none does
C12_SkipIffSomePatternMatches ==
  flt.asked =>
    (flt.skip <=> \E i \in 1..Len(flt.patterns) : Matches(flt.patterns[i], flt.name))

\* ".a" against [".*"] is skipped by prefix, with a pattern before it that fails
C12_Witness ==
  /\ flt.asked
  /\ flt.name = <<".", "a">>
  /\ flt.patterns = << <<"@", "*">>, <<".", "*">> >>
  /\ flt.skip
\* C13: when the dependency check finds the tool missing, the run has failed
\* without a walk of the tree, without a task, and with nothing made or changed
\* in the input tree or the output tree: the directories, the log and the files
\* are those the run found.
C13_MissingToolTouchesNothing ==
  (dpc = "exit1" /\ hist.nodep) =>
    /\ hist.counted = <<>> /\ skipped_dirs = <<>> /\ skipped_files = <<>>
    /\ hist.dispatched = <<>> /\ hist.pools = 0 /\ hist.encoded = {}
    /\ \A t \in Files : tpc[t] = "idle"
    /\ odirs = prev.odirs
    /\ ifiles = prev.ifiles

\* C14: when the counting walk finds no eligible file, the run ends without a
\* Pool and without a task, and its outcome is not the failure exit.
C14_NothingToDoIsNoError ==
  (dpc \notin {"idle", "constructed", "counting"} /\ ~hist.nodep /\ hist.counted = <<>>) =>
    /\ hist.pools = 0
    /\ hist.dispatched = <<>>
    /\ dpc # "exit1"

\* C15: a run whose dependency check passed and whose counting walk found a
\* file never ends as a failure, whatever its tasks did: it is neither exited
\* with 1 nor ended by an exception.
C15_TaskFailuresNeverFailTheRun ==
  (~hist.nodep /\ hist.counted # <<>>) => dpc \notin {"exit1", "crashed"}

\* C16: the copy shortcut keeps the guarantees of a conversion: a task that
\* found its output there returns the success of an existing output without
\* copying, and a worker killed during the copy leaves no partial file at the
\* output path.
C16_CopyShortcutIsSafe ==
  \A t \in DOMAIN cfg.probe :
    (cfg.mode = "video" /\ TakesCopy(t)) =>
      /\ (t \in hist.existed) =>
            /\ tpc[t] \notin {"copy", "copying"}
            /\ \A r \in ResultsOf(t) : r.status = "ok" /\ r.note = "existing"
      /\ (tpc[t] = "killed") =>
            ~(fs[Out(t)].via = "copy" /\ fs[Out(t)].st \in {"partial", "garbled"})

\* C17: once a batch has been interrupted no task is waiting or running, no
\* directory is started any more, and when the encoders left behind have
\* exited no output path holds a partial file.
C17_InterruptLeavesNoPartialOutput ==
  dpc = "interrupted" =>
    /\ \A t \in Files : tpc[t] \in {"idle", "returned", "killed"}
    /\ (\A t \in Files : enc[t] # "writing") =>
         \A p \in OutputPaths : fs[p].st \in {"none", "complete"}
\* C18: update logs one line for each result the driver consumes, a success
\* line for status True and a failure line for status False, in the order the
\* results are consumed: as many lines as results, with any number of workers.
C18_OneLinePerResult ==
  /\ Len(hist.lines) = Len(hist.consumed)
  /\ \A i \in 1..Len(hist.lines) :
       hist.lines[i].ok = (hist.consumed[i].status = "ok")

\* a finished run of two workers whose first result is not of the first task
\* submitted, with a failure and a success among its three lines
C18_Witness ==
  /\ hist.finished
  /\ cfg.workers = 2
  /\ Len(hist.lines) = 3
  /\ hist.consumed[1].file # hist.dispatched[1]
  /\ \E i \in 1..3 : ~hist.lines[i].ok
  /\ \E i \in 1..3 : hist.lines[i].ok

\* C20: the temp path of a task is in the directory of its output path and is
\* not the output path, and two tasks that are in flight together never have
\* the same temp path.
C20_TempPathsAreUnique ==
  /\ \A t \in EligibleFiles : Tmp(t)[1] = Out(t)[1] /\ Tmp(t) # Out(t)
  /\ \A t \in InFlight : \A u \in InFlight : t # u => Tmp(t) # Tmp(u)
\* C19: two runs over the same tree collect the same sequence of files and
\* submit their tasks in the same order, in whatever order the filesystem
\* lists the entries of the directories for each of them.
C19_WalkOrderIsStable ==
  /\ Len(walk.all) = 2 => walk.all[1] = walk.all[2]
  /\ Len(walk.level) = 2 => walk.level[1] = walk.level[2]

\* C21: a temp file left by the run before is no longer there once the encoder
\* of a task with that temp path has been invoked; a task that found such a
\* file and no output, and whose encoder call exited with 0, returns a success
\* and leaves a file at its output path and none at its temp path; and when a
\* run reports, every file whose encoder call exited with 0 has its output and
\* no temp file is left in the output tree.
C21_StaleTempIsRetried ==
  [][ /\ \A t \in hist'.encoded : Tmp(t) \notin hist'.stale
      /\ \A t \in hist.retried \cap hist.exit0 :
           (tpc[t] # "returned" /\ tpc'[t] = "returned") =>
             /\ resq'[Len(resq')].status = "ok"
             /\ Exists(fs', Out(t))
             /\ ~Exists(fs', Tmp(t))
      /\ (dpc # "done" /\ dpc' = "done") =>
           /\ \A t \in hist.exit0 : Exists(fs, Out(t))
           /\ \A t \in EligibleFiles : ~Exists(fs, Tmp(t)) ]_vars

\* C22: on one tree, in whatever order its directories are listed for each
\* walk, the counting walk and the traversal find the same files: the files of
\* collect_all_files are those of collect_current_dir_files over the
\* directories the driver enters, none of them twice, so as many tasks are
\* submitted as the counting walk counted.
C22_CountedIsDispatched ==
  \A i \in 1..Len(walk.all) : \A j \in 1..Len(walk.level) :
    /\ Range(walk.all[i]) = Range(walk.level[j])
    /\ Len(walk.all[i]) = Len(walk.level[j])
    /\ Cardinality(Range(walk.level[j])) = Len(walk.level[j])

\* two listings of the tree, a count that is not in the order of submission,
\* three files of which one is in a subdirectory
C22_Witness ==
  /\ Len(walk.all) = 2 /\ Len(walk.level) = 2
  /\ walk.ls[1] # walk.ls[2]
  /\ walk.all[1] # walk.level[1]
  /\ Len(walk.level[2]) = 3
  /\ \E k \in 1..3 : Parent[walk.level[2][k]] = "sub"

\* some pattern of the list matches the name
MatchedBy(patterns, name) == \E i \in 1..Len(patterns) : Matches(patterns[i], name)

\* the entry is, at some depth, below a directory that a skip pattern matches
BelowSkipped(e) ==
  \E d \in ({Parent[e]} \cup Ancestors(Parent[e])) \ {"root"} :
    MatchedBy(skip_dir_patterns, Name[d])

\* the files and directories that no skip pattern matches and that are not
\* below a matched directory, and those of them that are in each tree
NotSkipped ==
  {"root"} \cup
  { e \in (Files \cup Dirs) \ {"root"} :
      /\ ~BelowSkipped(e)
      /\ e \in Files => ~MatchedBy(skip_file_patterns, Name[e])
      /\ e \in Dirs => ~MatchedBy(skip_dir_patterns, Name[e]) }

NotSkippedIn == [tr \in DOMAIN Trees |-> { e \in NotSkipped : InTree(Trees[tr], e) }]

\* C23: no file whose name a file skip pattern matches, and no file at any
\* depth below a directory whose name a directory skip pattern matches, is
\* counted, dispatched or worked on, and no such directory, nor any directory
\* below one, is listed by the counting walk or entered by the traversal.
C23_SkippedIsExcluded ==
  /\ \A f \in Range(hist.counted) \cup Range(hist.dispatched)
              \cup { t \in Files : tpc[t] # "idle" } :
       f \in NotSkipped
  /\ tracker.total_files <= Cardinality(NotSkippedIn[cfg.tree] \cap Files)
  /\ hist.listed \cup Range(todo) \cup Range(subdirs) \subseteq NotSkipped

\* a reported run over a tree with a file .h.jpg, a directory .git and files
\* below it at depth one and two
C23_Witness ==
  /\ dpc = "done"
  /\ "h_jpg" \in Range(skipped_files)
  /\ "git" \in Range(skipped_dirs)
  /\ HasSupportedSuffix("d_jpg", cfg.mode) /\ BelowSkipped("d_jpg") /\ BelowSkipped("d_mp4")
  /\ hist.listed = {"root", "sub"}
  /\ Len(hist.dispatched) = 3

\* C24: the size of the Pool is the -w option when one is given, else
\* max(3, cores + 1) for the image converter and 1 for the video compressor,
\* and a Pool is never made of 0 or fewer workers.
C24_PoolSize ==
  pool.at # "main" =>
    /\ (pool.arg.some /\ pool.arg.n # 0) => pool.workers = pool.arg.n
    /\ ~pool.arg.some =>
         pool.workers = IF pool.mode = "video" THEN 1
                        ELSE IF pool.cores + 1 > 3 THEN pool.cores + 1 ELSE 3
    /\ pool.at = "pool" => pool.workers > 0

\* C25: with workers scheduled fairly and every encoder coming to its exit, a
\* run that has passed the dependency check and counted a file goes on to its
\* report (dpc = "done"); and as long as the encoder of a task has not exited,
\* the batch of the task is not drained and the run does not report.
C25_RunsReachDone ==
  /\ \A n \in 1..MaxRuns :
       (run = n /\ dpc = "traversing") ~> (run = n /\ dpc = "done")
  /\ [](\A t \in Files : (tpc[t] = "wait" /\ enc[t] = "writing") =>
                             (dpc = "draining" /\ ~BatchDrained))

\* C26: two different files dispatched in a run never have the same output
\* path, and the file at the output path of a task whose result was a success
\* was made from the input of that task.
C26_OutputPathsAreInjective ==
  /\ \A t \in Range(hist.dispatched) : \A u \in Range(hist.dispatched) :
       t # u => Out(t) # Out(u)
  /\ \A i \in 1..Len(hist.consumed) :
       hist.consumed[i].status = "ok" =>
         fs[Out(hist.consumed[i].file)].src = hist.consumed[i].file

\* C27: whenever the driver has handled a result, processed_files of the stats
\* equals the success counter of the tracker and success <= processed <=
\* total_files; handling a failed result adds one to the tracker's processed
\* counter and changes neither its success counter nor the stats.
C27_StatsAgreeWithTracker ==
  [][ /\ stats'.processed_files = tracker'.success
      /\ tracker'.success <= tracker'.processed
      /\ tracker'.processed <= tracker'.total_files
      /\ ( /\ Len(hist'.consumed) = Len(hist.consumed) + 1
           /\ hist'.consumed[Len(hist'.consumed)].status = "fail" ) =>
            /\ tracker'.processed = tracker.processed + 1
            /\ tracker'.success = tracker.success
            /\ stats' = stats ]_vars

\* a reported run of three results of which the second failed
C27_Witness ==
  /\ dpc = "done"
  /\ Len(hist.consumed) = 3
  /\ hist.consumed[2].status = "fail"
  /\ tracker = [total_files |-> 3, processed |-> 3, success |-> 2]
  /\ stats.processed_files = 2

\* C28: when the run reports, skipped_dirs holds exactly once every directory
\* of the tree that a skip pattern matched and the walks came upon, and
\* skipped_files exactly once every file of a supported format that a skip
\* pattern matched: the lengths printed are the numbers of distinct paths.
C28_SkipRecordHasNoDuplicates ==
  dpc = "done" =>
    /\ Range(skipped_dirs) =
         { d \in Dirs \ {"root"} : /\ InTree(Trees[cfg.tree], d)
                                    /\ MatchedBy(skip_dir_patterns, Name[d])
                                    /\ ~BelowSkipped(d) }
    /\ Range(skipped_files) =
         { f \in Files : /\ InTree(Trees[cfg.tree], f)
                         /\ HasSupportedSuffix(f, cfg.mode)
                         /\ MatchedBy(skip_file_patterns, Name[f])
                         /\ ~BelowSkipped(f) }
    /\ Len(skipped_dirs) = Cardinality(Range(skipped_dirs))
    /\ Len(skipped_files) = Cardinality(Range(skipped_files))

\* the eligible files that are directly in the directory
OwnFiles(d) == { f \in EligibleFiles : Parent[f] = d }

\* C29: for a directory entered that has no eligible file of its own no Pool
\* is made and neither start_directory nor finish_directory is called; Pools
\* and start_directory calls are as many as the directories entered that have
\* files; and when the run reports, every directory of the tree that is not
\* skipped nor below a skipped one has been entered and every eligible file,
\* also below a directory without files, has been dispatched.
C29_EmptyDirectoryIsPassedThrough ==
  /\ \A d \in Range(hist.entered) :
       OwnFiles(d) = {} => d \notin Range(hist.started) \cup Range(hist.closed)
  /\ hist.pools = Cardinality({ d \in Range(hist.entered) : OwnFiles(d) # {} })
  /\ Len(hist.started) = hist.pools
  /\ dpc = "done" =>
       /\ Range(hist.entered) = NotSkippedIn[cfg.tree] \cap Dirs
       /\ Range(hist.dispatched) = EligibleFiles

\* a reported run over the tree whose first directory has no eligible file
C29_Witness ==
  /\ dpc = "done"
  /\ cfg.tree = "deep"
  /\ OwnFiles("root") = {}
  /\ hist.entered = <<"root", "sub">>
  /\ hist.started = <<"sub">> /\ hist.closed = <<"sub">>
  /\ hist.pools = 1
  /\ Len(hist.dispatched) = 1 /\ Parent[hist.dispatched[1]] = "sub"

====
